---------------------------- MODULE Spec2Model ----------------------------
(***************************************************************************)
(* State-machine model of the myforms API (api/models.py,                  *)
(* api/serializers.py, api/views.py).  The database tables are sets of     *)
(* rows.  A request is handled by a worker that performs the handler's     *)
(* database statements one at a time, in the order of the code; no handler *)
(* opens a transaction, so every statement is committed when it is made.   *)
(*                                                                         *)
(*   Spec      Forms, Questions and Options, one request at a time, from   *)
(*             the empty database, with the clock advancing.               *)
(*   SpecConc  Question and Option requests of two workers interleaved.    *)
(*   SpecResp  Response creation over drawn Forms, Questions and Options.  *)
(*                                                                         *)
(* Not modelled: the text of a Question, the title and description of a    *)
(* Form, Form update and delete, users and tokens.                         *)
(***************************************************************************)
EXTENDS Integers, Sequences, FiniteSets, TLC

(* ----------------------------- bounds ---------------------------------- *)
MaxForms == 2
MaxQuestions == 2
MaxOptions == 2
MaxClock == 1
NumWorkers == 2
MaxResponses == 1
MaxAnswers == 2
MaxAnswerOptions == 2

Users == {"u1", "u2"}
(* the users who create Forms *)
Owners == {"u1"}
Workers == 1..NumWorkers
Values == {"A", "B"}
Positions == {0, 1}

(* api/models.py: Question.type choices *)
Types == {"text", "select", "multiple"}

FormIds == 1..MaxForms
QuestionIds == 1..MaxQuestions
OptionIds == 1..MaxOptions

(* Sequences over S of length at most n *)
SeqUpTo(S, n) == UNION {[1..k -> S] : k \in 0..n}

(* One entry of the request's 'answers': the 'question' id (MaxQuestions + 1
   names no Question) and the 'value's of its 'answer_options'. *)
AnswerData == [question : 1..(MaxQuestions + 1), values : SeqUpTo(Values, MaxAnswerOptions)]

(* The request's data: has_answers is FALSE when the 'answers' field is
   absent (data.get('answers', None) is then None). *)
RequestData ==
    {d \in [has_answers : BOOLEAN, answers : SeqUpTo(AnswerData, MaxAnswers)] :
        ~ d.has_answers => d.answers = <<>>}

VARIABLES now, forms, questions, options, responses, answers, answerOptions,
          seq, req

vars == <<now, forms, questions, options, responses, answers, answerOptions,
          seq, req>>

db == <<forms, questions, options, responses, answers, answerOptions, seq>>

(* ------------------------- worker bookkeeping -------------------------- *)
Idle ==
    [op |-> "idle", pc |-> "idle", status |-> "none", form |-> 0,
     question |-> 0, option |-> 0, type |-> "none", value |-> "none",
     position |-> 0, started |-> 0, response |-> 0, answers |-> <<>>,
     has_answers |-> FALSE,
     i |-> 0]

(* The handler raised before it wrote anything: the operation and the error. *)
Done(op, status) == [Idle EXCEPT !.op = op, !.pc = "done", !.status = status]

(* The handler returned after its writes: the rows it acted on are kept. *)
Finished(r, status) ==
    [Done(r.op, status) EXCEPT !.form = r.form, !.question = r.question,
                               !.option = r.option, !.position = r.position,
                               !.type = r.type, !.started = r.started]

InFlight(op) == Cardinality({w \in Workers : req[w].op = op /\ req[w].pc # "done"})

(* ------------------------------ queries -------------------------------- *)
(* Form.objects.get(pk=form_id, created_by=user) *)
FormsOwned(form_id, user) == {f \in forms : f.id = form_id /\ f.created_by = user}

(* mutant: the lookup is not scoped to the Form *)
QuestionsIn_AnyForm(question_id, form_id) ==
    {q \in questions : q.id = question_id}

(* Question.objects.get(pk=question_id, form=form) *)
QuestionsIn(question_id, form_id) ==
    {q \in questions : q.id = question_id /\ q.form = form_id}

(* Option.objects.filter(question=question) *)
OptionsOf(question_id) == {o \in options : o.question = question_id}

(* Model.save() without update_fields: UPDATE the row, INSERT when no row
   has that primary key. *)
Upsert(table, row) == {x \in table : x.id # row.id} \cup {row}

(* mutant: the timestamp is not written *)
update_date_updated_Skipped(form_id) == forms

(* Form.update_date_updated: date_updated = timezone.now(); save(update_fields) *)
update_date_updated(form_id) ==
    {IF f.id = form_id THEN [f EXCEPT !.date_updated = now] ELSE f : f \in forms}

(* mutant: Answer.question does not cascade *)
AnswersOfQuestion_Kept(question_id) == {}

(* on_delete=CASCADE from Question: its Options, its Answers and their
   AnswerOptions go with it. *)
AnswersOfQuestion(question_id) == {a \in answers : a.question = question_id}

AnswerOptionsOfAnswers(as) == {ao \in answerOptions : \E a \in as : ao.answer = a.id}

(* ------------------------------- Init ---------------------------------- *)
Init ==
    /\ now = 0
    /\ forms = {}
    /\ questions = {}
    /\ options = {}
    /\ responses = {}
    /\ answers = {}
    /\ answerOptions = {}
    /\ seq = [form |-> 1, question |-> 1, option |-> 1, response |-> 1,
              answer |-> 1, answerOption |-> 1]
    /\ req = [w \in Workers |-> Idle]

(* The clock of timezone.now() advances. *)
Tick ==
    /\ now < MaxClock
    /\ now' = now + 1
    /\ UNCHANGED <<db, req>>

(* The response has been sent; the worker takes the next request. *)
Respond(w) ==
    /\ req[w].pc = "done"
    /\ req' = [req EXCEPT ![w] = Idle]
    /\ UNCHANGED <<now, db>>

(* FormList.perform_create: one INSERT, auto_now sets date_updated. *)
FormCreate(w, user) ==
    /\ req[w].pc = "idle"
    /\ seq.form <= MaxForms
    /\ forms' = forms \cup {[id |-> seq.form, created_by |-> user, date_updated |-> now]}
    /\ seq' = [seq EXCEPT !.form = @ + 1]
    /\ req' = [req EXCEPT ![w] = Done("FormCreate", "ok")]
    /\ UNCHANGED <<now, questions, options, responses, answers, answerOptions>>

(* ----------------------------- Questions ------------------------------- *)
(* QuestionList.perform_create: the Form is looked up and its owner checked. *)
QuestionCreateStart(w, user, form_id, type) ==
    /\ req[w].pc = "idle"
    /\ seq.question + InFlight("QuestionCreate") <= MaxQuestions
    /\ req' = [req EXCEPT ![w] =
                 IF FormsOwned(form_id, user) = {}
                 THEN Done("QuestionCreate", "NotFound")
                 ELSE [Idle EXCEPT !.op = "QuestionCreate", !.started = now, !.pc = "touch",
                                   !.form = form_id, !.type = type]]
    /\ UNCHANGED <<now, db>>

(* QuestionSerializer.create: form.update_date_updated() *)
QuestionCreateTouch(w) ==
    /\ req[w].op = "QuestionCreate" /\ req[w].pc = "touch"
    /\ forms' = update_date_updated(req[w].form)
    /\ req' = [req EXCEPT ![w].pc = "insert"]
    /\ UNCHANGED <<now, questions, options, responses, answers, answerOptions, seq>>

(* QuestionSerializer.create: super().create(validated_data) *)
QuestionCreateInsert(w) ==
    /\ req[w].op = "QuestionCreate" /\ req[w].pc = "insert"
    /\ questions' = questions \cup
          {[id |-> seq.question, form |-> req[w].form, type |-> req[w].type]}
    /\ seq' = [seq EXCEPT !.question = @ + 1]
    /\ req' = [req EXCEPT ![w] = Finished([req[w] EXCEPT !.question = seq.question], "ok")]
    /\ UNCHANGED <<now, forms, options, responses, answers, answerOptions>>

(* QuestionDetail.get_queryset + get_object, then the serializer's validation.
   type = "none" is a partial update that leaves the type field out; the row
   read here is the instance that update() later saves. *)
QuestionUpdateStart(w, user, form_id, question_id, type) ==
    /\ req[w].pc = "idle"
    /\ req' = [req EXCEPT ![w] =
                 IF FormsOwned(form_id, user) = {} \/ QuestionsIn(question_id, form_id) = {}
                 THEN Done("QuestionUpdate", "NotFound")
                 ELSE LET instance == CHOOSE q \in QuestionsIn(question_id, form_id) : TRUE
                      IN [Idle EXCEPT !.op = "QuestionUpdate", !.started = now,
                                      !.pc = IF type = "text" THEN "delete_options" ELSE "save",
                                      !.form = form_id, !.question = question_id,
                                      !.type = IF type = "none" THEN instance.type ELSE type]]
    /\ UNCHANGED <<now, db>>

(* mutant: the delete is not filtered by the Question *)
DeleteOptionsOf_All(question_id) == {}

(* QuestionSerializer.update: Option.objects.filter(question=instance).delete() *)
DeleteOptionsOf(question_id) == {o \in options : o.question # question_id}

QuestionUpdateDeleteOptions(w) ==
    /\ req[w].op = "QuestionUpdate" /\ req[w].pc = "delete_options"
    /\ options' = DeleteOptionsOf(req[w].question)
    /\ req' = [req EXCEPT ![w].pc = "save"]
    /\ UNCHANGED <<now, forms, questions, responses, answers, answerOptions, seq>>

(* QuestionSerializer.update: super().update(instance, validated_data) *)
QuestionUpdateSave(w) ==
    /\ req[w].op = "QuestionUpdate" /\ req[w].pc = "save"
    /\ questions' = Upsert(questions, [id |-> req[w].question, form |-> req[w].form,
                                       type |-> req[w].type])
    /\ req' = [req EXCEPT ![w].pc = "touch"]
    /\ UNCHANGED <<now, forms, options, responses, answers, answerOptions, seq>>

(* QuestionSerializer.update: Form.objects.get(...).update_date_updated() *)
QuestionUpdateTouch(w) ==
    /\ req[w].op = "QuestionUpdate" /\ req[w].pc = "touch"
    /\ forms' = update_date_updated(req[w].form)
    /\ req' = [req EXCEPT ![w] = Finished(req[w], "ok")]
    /\ UNCHANGED <<now, questions, options, responses, answers, answerOptions, seq>>

(* QuestionDetail.get_queryset + get_object for DELETE *)
QuestionDeleteStart(w, user, form_id, question_id) ==
    /\ req[w].pc = "idle"
    /\ req' = [req EXCEPT ![w] =
                 IF FormsOwned(form_id, user) = {} \/ QuestionsIn(question_id, form_id) = {}
                 THEN Done("QuestionDelete", "NotFound")
                 ELSE [Idle EXCEPT !.op = "QuestionDelete", !.started = now, !.pc = "touch",
                                   !.form = form_id, !.question = question_id]]
    /\ UNCHANGED <<now, db>>

(* QuestionDetail.perform_destroy: form.update_date_updated() *)
QuestionDeleteTouch(w) ==
    /\ req[w].op = "QuestionDelete" /\ req[w].pc = "touch"
    /\ forms' = update_date_updated(req[w].form)
    /\ req' = [req EXCEPT ![w].pc = "delete"]
    /\ UNCHANGED <<now, questions, options, responses, answers, answerOptions, seq>>

(* QuestionDetail.perform_destroy: instance.delete(), with the cascades of
   Option.question, Answer.question and AnswerOption.answer. *)
QuestionDeleteDelete(w) ==
    /\ req[w].op = "QuestionDelete" /\ req[w].pc = "delete"
    /\ questions' = {q \in questions : q.id # req[w].question}
    /\ options' = DeleteOptionsOf(req[w].question)
    /\ answers' = answers \ AnswersOfQuestion(req[w].question)
    /\ answerOptions' = answerOptions \ AnswerOptionsOfAnswers(AnswersOfQuestion(req[w].question))
    /\ req' = [req EXCEPT ![w] = Finished(req[w], "ok")]
    /\ UNCHANGED <<now, forms, responses, seq>>

(* ------------------------------ Options -------------------------------- *)
(* OptionList.perform_create up to OptionSerializer.create's type check: the
   Form and the Question are read, and the Question read here is the one
   whose type is tested. *)
OptionCreateStart(w, user, form_id, question_id, value, position) ==
    /\ req[w].pc = "idle"
    /\ seq.option + InFlight("OptionCreate") <= MaxOptions
    /\ req' = [req EXCEPT ![w] =
                 IF FormsOwned(form_id, user) = {} \/ QuestionsIn(question_id, form_id) = {}
                 THEN Done("OptionCreate", "NotFound")
                 ELSE LET question == CHOOSE q \in QuestionsIn(question_id, form_id) : TRUE
                      IN IF question.type = "text"
                         THEN Done("OptionCreate", "ValidationError_question")
                         ELSE [Idle EXCEPT !.op = "OptionCreate", !.started = now, !.pc = "touch",
                                           !.form = form_id, !.question = question_id,
                                           !.value = value, !.position = position]]
    /\ UNCHANGED <<now, db>>

(* OptionSerializer.create: form.update_date_updated() *)
OptionCreateTouch(w) ==
    /\ req[w].op = "OptionCreate" /\ req[w].pc = "touch"
    /\ forms' = update_date_updated(req[w].form)
    /\ req' = [req EXCEPT ![w].pc = "insert"]
    /\ UNCHANGED <<now, questions, options, responses, answers, answerOptions, seq>>

(* The constraints the option table has: the foreign key to the question.
   Migration 0006 sets unique_together of option to the empty set and
   Option.Meta declares none, so (question, position) is not constrained. *)
OptionRowAllowed(row) == \E q \in questions : q.id = row.question

(* OptionSerializer.create: super().create(validated_data); an IntegrityError
   is turned into the 'position' ValidationError by OptionList.perform_create. *)
OptionCreateInsert(w) ==
    /\ req[w].op = "OptionCreate" /\ req[w].pc = "insert"
    /\ LET row == [id |-> seq.option, question |-> req[w].question,
                   value |-> req[w].value, position |-> req[w].position]
       IN IF OptionRowAllowed(row)
          THEN /\ options' = options \cup {row}
               /\ seq' = [seq EXCEPT !.option = @ + 1]
               /\ req' = [req EXCEPT ![w] =
                              Finished([req[w] EXCEPT !.option = seq.option], "ok")]
          ELSE /\ req' = [req EXCEPT ![w] = Finished(req[w], "ValidationError_position")]
               /\ UNCHANGED <<options, seq>>
    /\ UNCHANGED <<now, forms, questions, responses, answers, answerOptions>>

(* OptionDetail.get_queryset + get_object, then the serializer's validation.
   "none" is a field a partial update leaves out; the row read here is the
   instance that update() later saves. *)
OptionUpdateStart(w, user, form_id, question_id, option_id, value, position) ==
    /\ req[w].pc = "idle"
    /\ LET found == {o \in OptionsOf(question_id) : o.id = option_id}
       IN req' = [req EXCEPT ![w] =
                 IF \/ FormsOwned(form_id, user) = {}
                    \/ QuestionsIn(question_id, form_id) = {}
                    \/ found = {}
                 THEN Done("OptionUpdate", "NotFound")
                 ELSE LET instance == CHOOSE o \in found : TRUE
                      IN [Idle EXCEPT !.op = "OptionUpdate", !.started = now, !.pc = "touch",
                              !.form = form_id, !.question = question_id,
                              !.option = option_id,
                              !.value = IF value = "none" THEN instance.value ELSE value,
                              !.position = IF position = -1 THEN instance.position
                                           ELSE position]]
    /\ UNCHANGED <<now, db>>

(* OptionSerializer.update: instance.question.form is fetched (DoesNotExist
   when the Question is gone), then form.update_date_updated() *)
OptionUpdateTouch(w) ==
    /\ req[w].op = "OptionUpdate" /\ req[w].pc = "touch"
    /\ IF \E q \in questions : q.id = req[w].question
       THEN /\ forms' = update_date_updated(req[w].form)
            /\ req' = [req EXCEPT ![w].pc = "save"]
       ELSE /\ req' = [req EXCEPT ![w] = Done("OptionUpdate", "ServerError")]
            /\ UNCHANGED forms
    /\ UNCHANGED <<now, questions, options, responses, answers, answerOptions, seq>>

(* OptionSerializer.update: super().update(instance, validated_data) *)
OptionUpdateSave(w) ==
    /\ req[w].op = "OptionUpdate" /\ req[w].pc = "save"
    /\ LET row == [id |-> req[w].option, question |-> req[w].question,
                   value |-> req[w].value, position |-> req[w].position]
       IN IF OptionRowAllowed(row)
          THEN /\ options' = Upsert(options, row)
               /\ req' = [req EXCEPT ![w] = Finished(req[w], "ok")]
          ELSE /\ req' = [req EXCEPT ![w] = Finished(req[w], "ServerError")]
               /\ UNCHANGED options
    /\ UNCHANGED <<now, forms, questions, responses, answers, answerOptions, seq>>

(* OptionDetail.get_queryset + get_object for DELETE *)
OptionDeleteStart(w, user, form_id, question_id, option_id) ==
    /\ req[w].pc = "idle"
    /\ req' = [req EXCEPT ![w] =
                 IF \/ FormsOwned(form_id, user) = {}
                    \/ QuestionsIn(question_id, form_id) = {}
                    \/ {o \in OptionsOf(question_id) : o.id = option_id} = {}
                 THEN Done("OptionDelete", "NotFound")
                 ELSE [Idle EXCEPT !.op = "OptionDelete", !.started = now, !.pc = "touch",
                                   !.form = form_id, !.question = question_id,
                                   !.option = option_id]]
    /\ UNCHANGED <<now, db>>

(* OptionDetail.perform_destroy: instance.question.form.update_date_updated() *)
OptionDeleteTouch(w) ==
    /\ req[w].op = "OptionDelete" /\ req[w].pc = "touch"
    /\ IF \E q \in questions : q.id = req[w].question
       THEN /\ forms' = update_date_updated(req[w].form)
            /\ req' = [req EXCEPT ![w].pc = "delete"]
       ELSE /\ req' = [req EXCEPT ![w] = Done("OptionDelete", "ServerError")]
            /\ UNCHANGED forms
    /\ UNCHANGED <<now, questions, options, responses, answers, answerOptions, seq>>

(* OptionDetail.perform_destroy: instance.delete() *)
OptionDeleteDelete(w) ==
    /\ req[w].op = "OptionDelete" /\ req[w].pc = "delete"
    /\ options' = {o \in options : o.id # req[w].option}
    /\ req' = [req EXCEPT ![w] = Finished(req[w], "ok")]
    /\ UNCHANGED <<now, forms, questions, responses, answers, answerOptions, seq>>

(* ----------------------------- Responses ------------------------------ *)
(* The set of the elements of a sequence *)
Range(sq) == {sq[k] : k \in 1..Len(sq)}

(* mutant: select only counts the values *)
ValidateAnswerOptions_SelectAnyValue(type, values, option_values) ==
    IF type = "multiple"
    THEN IF Len(values) = 0 THEN "EmptySubmission"
         ELSE IF ~ (Range(values) \subseteq option_values
                    /\ Cardinality(Range(values)) = Len(values))
              THEN "InvalidValue"
              ELSE "ok"
    ELSE IF Len(values) # 1 THEN "CountMismatch" ELSE "ok"

(* mutant: multiple does not compare the number of distinct values *)
ValidateAnswerOptions_Repeats(type, values, option_values) ==
    IF type = "text"
    THEN IF Len(values) # 1 THEN "CountMismatch" ELSE "ok"
    ELSE IF type = "multiple"
    THEN IF Len(values) = 0 THEN "EmptySubmission"
         ELSE IF ~ (Range(values) \subseteq option_values)
              THEN "InvalidValue"
              ELSE "ok"
    ELSE IF ~ (Len(values) = 1) THEN "CountMismatch"
         ELSE IF ~ (values[1] \in option_values) THEN "InvalidValue"
              ELSE "ok"

(* mutant: text is checked against the Options as select is *)
ValidateAnswerOptions_TextAsSelect(type, values, option_values) ==
    IF type = "multiple"
    THEN IF Len(values) = 0 THEN "EmptySubmission"
         ELSE IF ~ (Range(values) \subseteq option_values
                    /\ Cardinality(Range(values)) = Len(values))
              THEN "InvalidValue"
              ELSE "ok"
    ELSE IF ~ (Len(values) = 1) THEN "CountMismatch"
         ELSE IF ~ (values[1] \in option_values) THEN "InvalidValue"
              ELSE "ok"

(* ResponseSerializer.create, lines 184-236: the checks on the AnswerOptions
   of one Answer, by the Question's type; option_values are the 'value's of
   Option.objects.filter(question=question). *)
ValidateAnswerOptions(type, values, option_values) ==
    IF type = "text"
    THEN IF Len(values) # 1 THEN "CountMismatch" ELSE "ok"
    ELSE IF type = "multiple"
    THEN IF Len(values) = 0 THEN "EmptySubmission"
         ELSE IF ~ (Range(values) \subseteq option_values
                    /\ Cardinality(Range(values)) = Len(values))
              THEN "InvalidValue"
              ELSE "ok"
    ELSE IF type = "select"
    THEN IF ~ (Len(values) = 1) THEN "CountMismatch"
         ELSE IF ~ (values[1] \in option_values) THEN "InvalidValue"
              ELSE "ok"
    ELSE "ok"

(* mutant: an empty list of answers counts as absent *)
MissingAnswers_OrEmpty(data) == ~ data.has_answers \/ data.answers = <<>>

(* ResponseSerializer.create: if answers_data == None *)
MissingAnswers(data) == ~ data.has_answers

(* ResponseSerializer.to_internal_value (the 'form' primary key must name a
   Form) and the head of ResponseSerializer.create (answers is required).
   has_answers records whether the request carried the answers field. *)
ResponseCreateStart(w, user, form_id, data) ==
    /\ req[w].pc = "idle"
    /\ seq.response + InFlight("ResponseCreate") <= MaxResponses
    /\ req' = [req EXCEPT ![w] =
                 IF {f \in forms : f.id = form_id} = {}
                 THEN Done("ResponseCreate", "ValidationError_form")
                 ELSE IF MissingAnswers(data)
                 THEN [Done("ResponseCreate", "MissingAnswers") EXCEPT
                          !.form = form_id, !.has_answers = data.has_answers]
                 ELSE [Idle EXCEPT !.op = "ResponseCreate", !.pc = "create_response",
                                   !.started = now, !.form = form_id, !.value = user,
                                   !.answers = data.answers, !.i = 1,
                                   !.has_answers = data.has_answers]]
    /\ UNCHANGED <<now, db>>

(* ResponseSerializer.create: Response.objects.create(created_by=user, ...) *)
ResponseCreateInsert(w) ==
    /\ req[w].op = "ResponseCreate" /\ req[w].pc = "create_response"
    /\ responses' = responses \cup
          {[id |-> seq.response, form |-> req[w].form, created_by |-> req[w].value]}
    /\ seq' = [seq EXCEPT !.response = @ + 1]
    /\ req' = [req EXCEPT ![w].pc = "answers", ![w].response = seq.response]
    /\ UNCHANGED <<now, forms, questions, options, answers, answerOptions>>

(* The rows AnswerOption.objects.create adds for one Answer, in the order of
   the submitted values; unique_together (value, answer) stops the insertion
   at the first repeated value. *)
(* mutant: only the first submitted value is stored *)
InsertAnswerOptions_FirstOnly(rows, next_id, answer_id, values) ==
    IF values = <<>> THEN [rows |-> rows, next |-> next_id, error |-> FALSE]
    ELSE [rows |-> rows \cup {[id |-> next_id, answer |-> answer_id,
                               value |-> Head(values)]},
          next |-> next_id + 1, error |-> FALSE]

RECURSIVE InsertAnswerOptions(_, _, _, _)
InsertAnswerOptions(rows, next_id, answer_id, values) ==
    IF values = <<>> THEN [rows |-> rows, next |-> next_id, error |-> FALSE]
    ELSE IF \E ao \in rows : ao.answer = answer_id /\ ao.value = Head(values)
    THEN [rows |-> rows, next |-> next_id, error |-> TRUE]
    ELSE InsertAnswerOptions(
            rows \cup {[id |-> next_id, answer |-> answer_id, value |-> Head(values)]},
            next_id + 1, answer_id, Tail(values))

(* The response the handler ends with *)
ResponseFinished(r, status) ==
    [Done("ResponseCreate", status) EXCEPT !.form = r.form, !.response = r.response]

(* ResponseSerializer.create: one turn of the loop over answers_data. *)
ResponseCreateAnswer(w) ==
    /\ req[w].op = "ResponseCreate" /\ req[w].pc = "answers"
    /\ req[w].i <= Len(req[w].answers)
    /\ LET answer_data == req[w].answers[req[w].i]
           found == QuestionsIn(answer_data.question, req[w].form)
       IN IF found = {}
          THEN /\ req' = [req EXCEPT ![w] = ResponseFinished(req[w], "QuestionNotFound")]
               /\ UNCHANGED <<answers, answerOptions, seq>>
          ELSE LET question == CHOOSE q \in found : TRUE
                   option_values == {o.value : o \in OptionsOf(question.id)}
                   verdict == ValidateAnswerOptions(question.type, answer_data.values,
                                                    option_values)
                   inserted == InsertAnswerOptions(answerOptions, seq.answerOption,
                                                   seq.answer, answer_data.values)
               IN IF verdict # "ok"
                  THEN /\ req' = [req EXCEPT ![w] = ResponseFinished(req[w], verdict)]
                       /\ UNCHANGED <<answers, answerOptions, seq>>
                  ELSE /\ answers' = answers \cup
                             {[id |-> seq.answer, response |-> req[w].response,
                               question |-> question.id]}
                       /\ answerOptions' = inserted.rows
                       /\ seq' = [seq EXCEPT !.answer = @ + 1,
                                             !.answerOption = inserted.next]
                       /\ req' = [req EXCEPT ![w] =
                                    IF inserted.error
                                    THEN ResponseFinished(req[w], "ServerError")
                                    ELSE [req[w] EXCEPT !.i = @ + 1]]
    /\ UNCHANGED <<now, forms, questions, options, responses>>

(* ResponseSerializer.create: return response *)
ResponseCreateReturn(w) ==
    /\ req[w].op = "ResponseCreate" /\ req[w].pc = "answers"
    /\ req[w].i > Len(req[w].answers)
    /\ req' = [req EXCEPT ![w] = ResponseFinished(req[w], "ok")]
    /\ UNCHANGED <<now, db>>

(* --------------------------- specification ----------------------------- *)
(* A request is taken by an idle worker; its inputs are drawn here. *)
QuestionCreateNext(w) ==
    \/ /\ req[w].pc = "idle"
       /\ \E u \in Users, f \in FormIds, t \in Types :
             QuestionCreateStart(w, u, f, t)
    \/ QuestionCreateTouch(w)
    \/ QuestionCreateInsert(w)

QuestionNext(w) ==
    \/ /\ req[w].pc = "idle"
       /\ \E u \in Users, f \in FormIds, q \in QuestionIds, t \in Types \cup {"none"} :
             QuestionUpdateStart(w, u, f, q, t)
    \/ QuestionUpdateDeleteOptions(w)
    \/ QuestionUpdateSave(w)
    \/ QuestionUpdateTouch(w)
    \/ /\ req[w].pc = "idle"
       /\ \E u \in Users, f \in FormIds, q \in QuestionIds :
             QuestionDeleteStart(w, u, f, q)
    \/ QuestionDeleteTouch(w)
    \/ QuestionDeleteDelete(w)

OptionCreateNext(w) ==
    \/ /\ req[w].pc = "idle"
       /\ \E u \in Users, f \in FormIds, q \in QuestionIds, v \in Values, p \in Positions :
             OptionCreateStart(w, u, f, q, v, p)
    \/ OptionCreateTouch(w)
    \/ OptionCreateInsert(w)

OptionUpdateNext(w) ==
    \/ /\ req[w].pc = "idle"
       /\ \E u \in Users, f \in FormIds, q \in QuestionIds, o \in OptionIds, v \in Values \cup {"none"}, p \in Positions \cup {-1} :
             OptionUpdateStart(w, u, f, q, o, v, p)
    \/ OptionUpdateTouch(w)
    \/ OptionUpdateSave(w)

OptionDeleteNext(w) ==
    \/ /\ req[w].pc = "idle"
       /\ \E u \in Users, f \in FormIds, q \in QuestionIds, o \in OptionIds :
             OptionDeleteStart(w, u, f, q, o)
    \/ OptionDeleteTouch(w)
    \/ OptionDeleteDelete(w)

(* One request at a time: worker 1 serves every request, statement by
   statement, from the empty database. *)
Next ==
    \/ Tick
    \/ Respond(1)
    \/ \E u \in Owners : FormCreate(1, u)
    \/ QuestionCreateNext(1)
    \/ QuestionNext(1)
    \/ OptionCreateNext(1)
    \/ OptionUpdateNext(1)
    \/ OptionDeleteNext(1)

Spec == Init /\ [][Next]_vars

(* Concurrent requests: the statements of the workers' handlers interleave.
   The database starts with one Form holding one select or multiple
   Question, as FormCreate and QuestionCreate leave it; the requests all
   arrive within one reading of the clock. *)
InitConc ==
    /\ now = 0
    /\ forms = {[id |-> 1, created_by |-> "u1", date_updated |-> 0]}
    /\ \E t \in Types \ {"text"} : questions = {[id |-> 1, form |-> 1, type |-> t]}
    /\ options = {}
    /\ responses = {}
    /\ answers = {}
    /\ answerOptions = {}
    /\ seq = [form |-> 2, question |-> 2, option |-> 1, response |-> 1,
              answer |-> 1, answerOption |-> 1]
    /\ req = [w \in Workers |-> Idle]

NextConc ==
    \E w \in Workers :
          \/ Respond(w)
          \/ QuestionNext(w)
          \/ OptionCreateNext(w)
          \/ OptionUpdateNext(w)
          \/ OptionDeleteNext(w)

SpecConc == InitConc /\ [][NextConc]_vars

(* Responses: the database holds two Forms and two Questions; the first
   Question is in the first Form and its type and Options are drawn (none,
   one or two Options, at positions 0 and 1), the second Question is a text
   Question of either Form.  Worker 1 serves one request at a time, within
   one reading of the clock. *)
OptionDraws ==
    SUBSET {[id |-> 1, question |-> 1, value |-> "A", position |-> 0],
            [id |-> 2, question |-> 1, value |-> "B", position |-> 1]}

InitResp ==
    /\ now = 0
    /\ forms = {[id |-> f, created_by |-> "u1", date_updated |-> 0] : f \in 1..2}
    /\ \E t \in Types, f \in 1..2 :
          questions = {[id |-> 1, form |-> 1, type |-> t],
                       [id |-> 2, form |-> f, type |-> "text"]}
    /\ options \in OptionDraws
    /\ responses = {}
    /\ answers = {}
    /\ answerOptions = {}
    /\ seq = [form |-> 3, question |-> 3, option |-> 3, response |-> 1,
              answer |-> 1, answerOption |-> 1]
    /\ req = [w \in Workers |-> Idle]

ResponseNext(w) ==
    \/ /\ req[w].pc = "idle"
       /\ \E u \in Users, f \in 1..(MaxForms + 1), d \in RequestData :
             ResponseCreateStart(w, u, f, d)
    \/ ResponseCreateInsert(w)
    \/ ResponseCreateAnswer(w)
    \/ ResponseCreateReturn(w)

NextResp ==
    \/ Respond(1)
    \/ ResponseNext(1)
    \/ QuestionNext(1)
    \/ OptionDeleteNext(1)

SpecResp == InitResp /\ [][NextResp]_vars

(* ------------------------------ claims --------------------------------- *)
(* Worker w performs one turn of ResponseSerializer.create's loop in this step. *)
AnswerStep(w) ==
    /\ req[w].op = "ResponseCreate" /\ req[w].pc = "answers"
    /\ req[w].i <= Len(req[w].answers)
    /\ req'[w] # req[w]

(* The entry the turn is about, and the Questions of the target Form it names *)
EntryOf(w) == req[w].answers[req[w].i]

EntryQuestions(w) ==
    {q \in questions : q.id = EntryOf(w).question /\ q.form = req[w].form}

EntryHasType(w, type) == \E q \in EntryQuestions(w) : q.type = type

(* The turn accepted the entry: the loop moves on and the Answer is there. *)
EntryAccepted(w) ==
    /\ req'[w].pc = "answers"
    /\ req'[w].i = req[w].i + 1
    /\ \E a \in answers' \ answers :
          a.question = EntryOf(w).question /\ a.response = req[w].response

(* The turn rejected the entry with the given error and added no row. *)
EntryRejected(w, status) ==
    /\ req'[w].pc = "done"
    /\ req'[w].status = status
    /\ answers' = answers
    /\ answerOptions' = answerOptions

CurrentOptionValues(question_id) ==
    {o.value : o \in {x \in options : x.question = question_id}}

(* C1: a createResponse call that fails leaves no Response, Answer or
   AnswerOption of that call behind, wherever the failing entry stands. *)
C1_AllOrNothing ==
    \A w \in Workers :
        (req[w].op = "ResponseCreate" /\ req[w].pc = "done" /\ req[w].status # "ok")
        => /\ ~ \E r \in responses : r.id = req[w].response
           /\ ~ \E a \in answers : a.response = req[w].response

(* C2: an entry for a select Question is accepted iff it has exactly one
   value and that value is the value of one of the Question's Options; any
   other count is a count mismatch, a single other value an invalid value. *)
C2_SelectAccepted ==
    [][\A w \in Workers :
          (AnswerStep(w) /\ EntryHasType(w, "select"))
          => LET values == EntryOf(w).values
                 good == Len(values) = 1
                         /\ values[1] \in CurrentOptionValues(EntryOf(w).question)
             IN /\ good <=> EntryAccepted(w)
                /\ Len(values) # 1 => EntryRejected(w, "CountMismatch")
                /\ (Len(values) = 1 /\ ~ good) => EntryRejected(w, "InvalidValue")]_vars

C2_Witness ==
    \E a \in answers, q \in questions, ao \in answerOptions :
        /\ a.question = q.id /\ q.type = "select"
        /\ ao.answer = a.id /\ ao.value \in CurrentOptionValues(q.id)

(* C3: an entry for a multiple Question is accepted iff it has at least one
   value, its values are pairwise distinct and each is the value of one of
   the Question's Options; otherwise it is rejected. *)
C3_MultipleAccepted ==
    [][\A w \in Workers :
          (AnswerStep(w) /\ EntryHasType(w, "multiple"))
          => LET values == EntryOf(w).values
                 distinct == \A j, k \in 1..Len(values) : j # k => values[j] # values[k]
                 known == \A j \in 1..Len(values) :
                             values[j] \in CurrentOptionValues(EntryOf(w).question)
                 good == Len(values) >= 1 /\ distinct /\ known
             IN /\ good <=> EntryAccepted(w)
                /\ Len(values) = 0 => EntryRejected(w, "EmptySubmission")
                /\ (Len(values) >= 1 /\ ~ good) => EntryRejected(w, "InvalidValue")]_vars

C3_Witness ==
    \E a \in answers, q \in questions :
        /\ a.question = q.id /\ q.type = "multiple"
        /\ Cardinality({ao \in answerOptions : ao.answer = a.id}) = 2

(* C4: an entry for a text Question is accepted iff it has exactly one
   value, whatever the value and whatever Options the Question holds. *)
C4_TextAccepted ==
    [][\A w \in Workers :
          (AnswerStep(w) /\ EntryHasType(w, "text"))
          => /\ Len(EntryOf(w).values) = 1 <=> EntryAccepted(w)
             /\ Len(EntryOf(w).values) # 1 => EntryRejected(w, "CountMismatch")]_vars

C4_Witness ==
    \E a \in answers, q \in questions, ao \in answerOptions :
        /\ a.question = q.id /\ q.type = "text" /\ q.form = 1
        /\ ao.answer = a.id /\ ao.value \notin CurrentOptionValues(q.id)

(* C5: no two Options of one Question hold the same position. *)
C5_PositionsUnique ==
    \A o1, o2 \in options :
        (o1.question = o2.question /\ o1.position = o2.position) => o1 = o2

(* C6: two concurrent Option creations for the same Question and position
   do not both succeed. *)
C6_AtMostOneCreationWins ==
    \A w1, w2 \in Workers :
        ( /\ w1 # w2
          /\ req[w1].op = "OptionCreate" /\ req[w1].pc = "done"
          /\ req[w2].op = "OptionCreate" /\ req[w2].pc = "done"
          /\ req[w1].question = req[w2].question
          /\ req[w1].position = req[w2].position )
        => ~ (req[w1].status = "ok" /\ req[w2].status = "ok")

(* C7: a Question of type text owns no Options, in every reachable state of
   interleaved Question and Option requests. *)
C7_TextOwnsNoOptions ==
    \A q \in questions :
        q.type = "text" => {o \in options : o.question = q.id} = {}

(* Worker w performs a statement of QuestionSerializer.update in this step. *)
QuestionUpdateStep(w) ==
    /\ req[w].op = "QuestionUpdate"
    /\ req[w].pc \in {"delete_options", "save", "touch"}
    /\ req'[w] # req[w]

IsText(question_id) == \E q \in questions : q.id = question_id /\ q.type = "text"

(* C8: a Question update with type text removes every Option of that
   Question and no Option of another Question; on a Question that is text
   already it changes neither the Questions nor the Options. *)
C8_ConvertToText ==
    [][\A w \in Workers :
          QuestionUpdateStep(w)
          => LET q == req[w].question
             IN /\ options' \subseteq options
                /\ \A o \in options \ options' : o.question = q
                /\ req[w].pc = "delete_options"
                      => {o \in options' : o.question = q} = {}
                /\ (req'[w].pc = "done" /\ req[w].type = "text")
                      => /\ {o \in options' : o.question = q} = {}
                         /\ \E x \in questions' : x.id = q /\ x.type = "text"
                /\ (req[w].type = "text" /\ IsText(q))
                      => (questions' = questions /\ options' = options)]_vars

C8_Witness ==
    /\ req[1].op = "QuestionUpdate" /\ req[1].pc = "done" /\ req[1].type = "text"
    /\ seq.option = 3
    /\ {o \in options : o.question = req[1].question} = {}
    /\ \E o \in options : o.question # req[1].question

(* The operations that change a Form's Questions or Options *)
StructuralOps ==
    {"QuestionCreate", "QuestionUpdate", "QuestionDelete",
     "OptionCreate", "OptionUpdate", "OptionDelete"}

(* C9: no Form's last-modified timestamp ever decreases; a timestamp that
   changes becomes the current clock reading; a successful create, update or
   delete of a Question or Option under Form F leaves F's timestamp no
   earlier than the request's arrival (so later than the previous one when
   the clock has advanced past it); a request changes no other Form's
   timestamp. *)
C9_TimestampMonotonic ==
    [][/\ \A f \in forms : \E g \in forms' :
             /\ g.id = f.id
             /\ g.date_updated >= f.date_updated
             /\ g.date_updated # f.date_updated => g.date_updated = now
             /\ now > f.date_updated /\ g # f => g.date_updated > f.date_updated
       /\ \A w \in Workers :
             ( /\ req'[w].op \in StructuralOps
               /\ req[w].pc # "done" /\ req'[w].pc = "done" /\ req'[w].status = "ok" )
             => \E g \in forms' : /\ g.id = req'[w].form
                                  /\ g.date_updated >= req'[w].started
       /\ \A w \in Workers :
             req'[w] # req[w]
             => \A f \in forms : (f.id # req[w].form /\ req[w].op \in StructuralOps)
                                    => f \in forms']_vars

C9_Witness ==
    /\ req[1].op = "OptionDelete" /\ req[1].pc = "done" /\ req[1].status = "ok"
    /\ req[1].started = 1
    /\ \E f \in forms : f.id = req[1].form /\ f.date_updated = 1
    /\ \E f \in forms : f.id # req[1].form /\ f.date_updated = 0

(* C10: every Answer references a Question of the Form of the Answer's
   Response; an entry whose question id names no Question of the target Form
   fails with QuestionNotFound and adds no row; no step moves a Question or
   a Response to another Form. *)
AnswersWithinForm ==
    \A a \in answers : \E r \in responses, q \in questions :
        r.id = a.response /\ q.id = a.question /\ q.form = r.form

C10_AnswerWithinForm ==
    [][/\ AnswersWithinForm'
       /\ \A w \in Workers :
             (AnswerStep(w) /\ EntryQuestions(w) = {})
             => EntryRejected(w, "QuestionNotFound")
       /\ \A q \in questions, x \in questions' : x.id = q.id => x.form = q.form
       /\ \A r \in responses, x \in responses' : x.id = r.id => x.form = r.form]_vars

C10_Witness ==
    /\ req[1].op = "ResponseCreate" /\ req[1].pc = "done"
    /\ req[1].status = "QuestionNotFound"
    /\ \E a \in answers : a.response = req[1].response
    /\ \E q \in questions : q.form # req[1].form

(* Worker w performs the DELETE statement of a Question or Option delete. *)
DeleteStep(w, op) ==
    /\ req[w].op = op /\ req[w].pc = "delete"
    /\ req'[w] # req[w]

StructuralChange(w) ==
    /\ req[w].op \in StructuralOps
    /\ req'[w] # req[w]
    /\ (questions' # questions \/ options' # options)

(* C12: whenever a create, update or delete of a Question or Option changes
   the stored Questions or Options, the timestamp of its Form has already
   been brought up to the request (it is no earlier than the request's
   arrival), so no state, whether read by an interleaved request or left by
   a request that fails midway, shows the change with the old timestamp. *)
C12_TouchBeforeChange ==
    [][\A w \in Workers :
          StructuralChange(w)
          => \E g \in forms : /\ g.id = req[w].form
                              /\ g.date_updated >= req[w].started]_vars


(* The place of row x among the rows of S, in the order of creation *)
Rank(x, S) == Cardinality({y \in S : y.id <= x.id})

AnswersOfResponse(response_id) == {a \in answers : a.response = response_id}

AnswerOptionsOfAnswer(answer_id) == {ao \in answerOptions : ao.answer = answer_id}

(* Worker w returns the Response of a request all of whose entries passed. *)
ReturnStep(w) ==
    /\ req[w].op = "ResponseCreate" /\ req[w].pc = "answers"
    /\ req'[w].pc = "done" /\ req'[w].status = "ok"

(* What a createResponse that returns has stored for request r: one
   Response of the Form and the user, one Answer per entry in the order of
   the entries, one AnswerOption per submitted value in the order of the
   values, no value twice under one Answer. *)
StoredAsSubmitted(r) ==
    /\ {x \in responses : x.id = r.response}
          = {[id |-> r.response, form |-> r.form, created_by |-> r.value]}
    /\ Cardinality(AnswersOfResponse(r.response)) = Len(r.answers)
    /\ \A a \in AnswersOfResponse(r.response) :
          LET entry == r.answers[Rank(a, AnswersOfResponse(r.response))]
          IN /\ a.question = entry.question
             /\ Cardinality(AnswerOptionsOfAnswer(a.id)) = Len(entry.values)
             /\ \A ao \in AnswerOptionsOfAnswer(a.id) :
                   ao.value = entry.values[Rank(ao, AnswerOptionsOfAnswer(a.id))]
             /\ \A ao1, ao2 \in AnswerOptionsOfAnswer(a.id) :
                   ao1.value = ao2.value => ao1 = ao2

(* A step of worker w serving createResponse adds rows only: at most the
   Response of the request, Answers of that Response, and AnswerOptions of
   the Answers it adds; Forms, Questions and Options stay as they are. *)
AddsOnlyOwnRows(w) ==
    /\ forms' = forms /\ questions' = questions /\ options' = options
    /\ responses \subseteq responses'
    /\ answers \subseteq answers'
    /\ answerOptions \subseteq answerOptions'
    /\ \A x \in responses' \ responses :
          /\ x.id = req'[w].response
          /\ \A y \in responses : y.id # x.id
    /\ \A a \in answers' \ answers :
          /\ a.response = req[w].response
          /\ \A b \in answers : b.id # a.id
    /\ \A ao \in answerOptions' \ answerOptions :
          /\ \E a \in answers' \ answers : a.id = ao.answer
          /\ \A bo \in answerOptions : bo.id # ao.id

(* C13: a createResponse all of whose entries are valid has stored, when it
   returns, exactly one Response for the target Form and the calling user,
   exactly one Answer per entry linked to that Response and the entry's
   Question in input order, and exactly one AnswerOption per submitted value
   in submission order, no two AnswerOptions of one Answer sharing a value;
   every step of the request adds only those rows and changes nothing else. *)
C13_StoredAsSubmitted ==
    [][\A w \in Workers :
          /\ ReturnStep(w) => StoredAsSubmitted(req[w])
          /\ (req[w].op = "ResponseCreate" /\ req'[w] # req[w])
                => AddsOnlyOwnRows(w)]_vars

C13_Witness ==
    /\ req[1].op = "ResponseCreate" /\ req[1].pc = "done" /\ req[1].status = "ok"
    /\ Cardinality(AnswersOfResponse(req[1].response)) = 2
    /\ \E a \in AnswersOfResponse(req[1].response) :
          /\ [id |-> 1, answer |-> a.id, value |-> "B"] \in answerOptions
          /\ [id |-> 2, answer |-> a.id, value |-> "A"] \in answerOptions
    /\ \E a \in AnswersOfResponse(req[1].response) :
          Cardinality(AnswerOptionsOfAnswer(a.id)) = 1


(* Worker w takes a step of a createResponse whose list of answers has been
   gone through to its end (at once when the list is empty). *)
EndOfAnswers(w) ==
    /\ req[w].op = "ResponseCreate" /\ req[w].pc = "answers"
    /\ req[w].i > Len(req[w].answers)
    /\ req'[w] # req[w]

(* C14: a createResponse is rejected with MissingAnswers exactly when the
   answers field is absent, and the rejection creates no Response; a request
   that carries the answers field, be the list empty or covering only some
   of the Form's Questions, gets its Response created, and once its entries
   are gone through it succeeds with exactly one Answer per provided entry,
   for the Questions of the entries and no others. *)
C14_AnswersRequiredNotComplete ==
    [][\A w \in Workers :
          /\ (req[w].pc = "idle" /\ req'[w].op = "ResponseCreate"
                 /\ req'[w].status = "MissingAnswers")
                => /\ ~ req'[w].has_answers
                   /\ req'[w].response = 0
                   /\ responses' = responses /\ seq' = seq
          /\ (req[w].pc = "idle" /\ req'[w].op = "ResponseCreate"
                 /\ req'[w].pc = "create_response")
                => req'[w].has_answers
          /\ (req[w].op = "ResponseCreate" /\ req[w].pc = "create_response"
                 /\ req'[w] # req[w])
                => /\ req'[w].pc = "answers"
                   /\ \E x \in responses' \ responses : x.id = req'[w].response
          /\ EndOfAnswers(w)
                => /\ req'[w].pc = "done" /\ req'[w].status = "ok"
                   /\ \E x \in responses : x.id = req[w].response
                   /\ Cardinality(AnswersOfResponse(req[w].response))
                         = Len(req[w].answers)
                   /\ {a.question : a \in AnswersOfResponse(req[w].response)}
                         = {req[w].answers[k].question : k \in 1..Len(req[w].answers)}
                   /\ UNCHANGED db]_vars

(* An empty list of answers has succeeded on a Form that has a Question. *)
C14_Witness ==
    /\ req[1].op = "ResponseCreate" /\ req[1].pc = "done" /\ req[1].status = "ok"
    /\ \E x \in responses : x.id = req[1].response /\ x.form = req[1].form
    /\ AnswersOfResponse(req[1].response) = {}
    /\ \E q \in questions : q.form = req[1].form

====
